---- MODULE Spec2Model ----
(***************************************************************************)
(* TrailComparisonMask (trail_comparison.js): a mask raster drawn from     *)
(* reference trails, and compare(), which averages the raster under the    *)
(* points of a query.                                                      *)
(*                                                                         *)
(* Representation.                                                         *)
(*  - A normalized coordinate is the rational k / CoordDen; a point is the *)
(*    pair <<kx, ky>>.  A trail is a sequence of points, a list of trails  *)
(*    a sequence of trails.                                                *)
(*  - A JavaScript argument that is "a trail or a list of trails" is the   *)
(*    record [kind, v]: kind "null" (null / omitted, v = <<>>), "trail"    *)
(*    (the argument is the array of points v[1]; v = <<the trail>>) or     *)
(*    "list" (the argument is the array of trails v).  The empty array []  *)
(*    is the "list" with v = <<>>.                                         *)
(*  - An optional number (thickness, blur_size) is <<>> for null and <<n>> *)
(*    for the number n.                                                    *)
(*  - A raster (the canvas bitmap, and the ImageData in this.img) is the   *)
(*    row-major sequence of the red channel, pixel (x, y) at y * w + x + 1 *)
(*    (the code reads data[(y * w + x) * 4]); <<>> stands for null.        *)
(*  - The score compare() returns is the pair (point_total, num_points),   *)
(*    denoting point_total / 255 / num_points; num_points = 0 denotes the  *)
(*    NaN of 0 / 0.                                                        *)
(* The Canvas 2D calls (stroke, blur filter, screen compositing) are the   *)
(* browser's; they are modelled here on pixel corners, see the section on  *)
(* the canvas below.                                                       *)
(***************************************************************************)
EXTENDS Integers, Sequences, FiniteSets, TLC

\* ------------------------------------------------------------------ bounds
MaxDim == 2
MaxPoints == 2
MaxTrails == 2
CoordDen == 4

\* ------------------------------------------------------- program constants
MaskValue == 255
ScreenPasses == 2

\* ------------------------------------------------------------ input domains
Null == <<>>
Some(v) == <<v>>

Dims == 1..MaxDim

\* (0,0) is the top-left corner; (1 + 1/CoordDen, 1 + 2/CoordDen) lies
\* outside [0,1] on both axes, and rounds into or out of the raster
\* depending on its width and height.
Points == { <<0, 0>>, <<CoordDen + 1, CoordDen + 2>> }

SeqsUpTo(S, n) == UNION { [1..k -> S] : k \in 0..n }

Trails == SeqsUpTo(Points, MaxPoints)

RECURSIVE Flat(_)
\* Array.prototype.flat() on a list of trails: the points, in order.
Flat(list) == IF list = <<>> THEN <<>> ELSE Head(list) \o Flat(Tail(list))

\* Lists of at most MaxTrails trails with at most MaxPoints points in all.
TrailLists == { l \in SeqsUpTo(Trails, MaxTrails) : Len(Flat(l)) <= MaxPoints }

NullArg == [kind |-> "null", v |-> <<>>]

TrailArgs ==
    { [kind |-> "trail", v |-> <<t>>] : t \in Trails \ {<<>>} }
    \cup { [kind |-> "list", v |-> l] : l \in TrailLists }

ThicknessVals == {1, 4}
BlurVals == {0, 2}

OptOf(S) == {Null} \cup { Some(v) : v \in S }

\* ------------------------------------------------------------ pure helpers
Thrown == [ok |-> FALSE, v |-> <<>>]

\* Faulty variant: treats an array with no first point as an empty list of trails.
_convert_lenient(arg) ==
    IF arg.kind = "null" THEN Thrown
    ELSE IF arg.kind = "trail" THEN [ok |-> TRUE, v |-> arg.v]
    ELSE IF Len(arg.v) = 0 \/ Len(arg.v[1]) = 0
         THEN [ok |-> TRUE, v |-> SelectSeq(arg.v, LAMBDA t : Len(t) > 0)]
    ELSE [ok |-> TRUE, v |-> arg.v]

\* is_one_trail = t[0][0].length === undefined.
\*   t null, or t = []        : t[0] fails or is undefined, [0] of it throws
\*   t[0] a point             : t[0][0] is a number, .length is undefined
\*   t[0] = [] (empty trail)  : t[0][0] is undefined, .length of it throws
\*   t[0] a non-empty trail   : t[0][0] is a point, .length is 2
_convert_to_list_of_trails(arg) ==
    IF arg.kind = "null" THEN Thrown
    ELSE IF arg.kind = "trail"
         THEN IF Len(arg.v[1]) = 0 THEN Thrown ELSE [ok |-> TRUE, v |-> arg.v]
    ELSE IF Len(arg.v) = 0 THEN Thrown
    ELSE IF Len(arg.v[1]) = 0 THEN Thrown
    ELSE [ok |-> TRUE, v |-> arg.v]

\* Math.round(num / den) for den > 0: ties go up, floor(v + 1/2).
MathRound(num, den) == (2 * num + den) \div (2 * den)

\* Faulty variant: scales by the width and the height, not by the last index.
_xy_norm_to_px_fullscale(xy_norm_list, width_px, height_px) ==
    [i \in 1..Len(xy_norm_list) |->
        << MathRound(xy_norm_list[i][1] * width_px, CoordDen),
           MathRound(xy_norm_list[i][2] * height_px, CoordDen) >>]

\* Faulty variant: truncates to the pixel instead of rounding to it.
_xy_norm_to_px_floor(xy_norm_list, width_px, height_px) ==
    [i \in 1..Len(xy_norm_list) |->
        << (xy_norm_list[i][1] * (width_px - 1)) \div CoordDen,
           (xy_norm_list[i][2] * (height_px - 1)) \div CoordDen >>]

_xy_norm_to_px(xy_norm_list, width_px, height_px) ==
    LET w_scale == width_px - 1
        h_scale == height_px - 1
    IN [i \in 1..Len(xy_norm_list) |->
           << MathRound(xy_norm_list[i][1] * w_scale, CoordDen),
              MathRound(xy_norm_list[i][2] * h_scale, CoordDen) >>]

\* ---------------------------------------------------------------- the canvas
\* Canvas 2D, red channel of an opaque bitmap.  A stroke with round caps and
\* round joins covers the points within lineWidth / 2 of a segment of the
\* path; a pixel's coverage is the number of its four corners the stroke
\* covers (anti-aliasing in quarters).  Subpaths of one point and segments of
\* zero length are pruned before stroking.  With filter blur(b) the stroke
\* spreads to lineWidth / 2 + b and loses half its peak.

\* canvas.width = w resets the bitmap and the context state (lineWidth 1, no
\* filter).
BlankBitmap(width, height) == [i \in 1..(width * height) |-> 0]

ResetContext(width, height) ==
    [width |-> width, height |-> height, bitmap |-> BlankBitmap(width, height),
     lineWidth |-> 1, blur |-> 0]

\* ctx.lineWidth = v: zero, negative and non-numbers are ignored.
SetLineWidth(ctx, v) ==
    IF v # Null /\ v[1] > 0 THEN [ctx EXCEPT !.lineWidth = v[1]] ELSE ctx

\* 4 * dist((cx,cy), segment a-b)^2 <= diam^2
CornerInStroke(cx, cy, a, b, diam) ==
    LET dx == b[1] - a[1]
        dy == b[2] - a[2]
        ux == cx - a[1]
        uy == cy - a[2]
        vx == cx - b[1]
        vy == cy - b[2]
        L2 == dx * dx + dy * dy
        s == ux * dx + uy * dy
    IN IF s <= 0 THEN 4 * (ux * ux + uy * uy) <= diam * diam
       ELSE IF s >= L2 THEN 4 * (vx * vx + vy * vy) <= diam * diam
       ELSE 4 * ((ux * ux + uy * uy) * L2 - s * s) <= diam * diam * L2

\* The segments of a path (a list of pixel-coordinate subpaths) that get ink.
PathSegments(path) ==
    { <<path[ti[1]][ti[2]], path[ti[1]][ti[2] + 1]>> :
        ti \in { tj \in (1..Len(path)) \X (1..MaxPoints) :
                   /\ tj[2] < Len(path[tj[1]])
                   /\ path[tj[1]][tj[2]] # path[tj[1]][tj[2] + 1] } }

PixelX(i, width) == (i - 1) % width
PixelY(i, width) == (i - 1) \div width

\* How many of the four corners of pixel i lie within diam / 2 of the path.
Coverage(i, width, segs, diam) ==
    Cardinality({ c \in {0, 1} \X {0, 1} :
        \E sg \in segs :
            CornerInStroke(PixelX(i, width) + c[1], PixelY(i, width) + c[2],
                           sg[1], sg[2], diam) })

\* ctx.stroke() of full-intensity ink, source-over, under the current filter.
Stroke(ctx, path) ==
    LET segs == PathSegments(path)
        ink(i) == IF ctx.blur > 0
                  THEN Coverage(i, ctx.width, segs, ctx.lineWidth + 2 * ctx.blur)
                  ELSE 2 * Coverage(i, ctx.width, segs, ctx.lineWidth)
        over(k, dst) == (k * MaskValue + (8 - k) * dst) \div 8
    IN [ctx EXCEPT !.bitmap =
           [i \in 1..Len(ctx.bitmap) |-> over(ink(i), ctx.bitmap[i])]]

\* globalCompositeOperation "screen" of two channel values.
Screen(a, b) == a + b - ((a * b) \div MaskValue)

\* ctx.drawImage(ctx.canvas, 0, 0) under "screen": the bitmap onto itself.
ScreenSelf(ctx) ==
    [ctx EXCEPT !.bitmap =
        [i \in 1..Len(ctx.bitmap) |-> Screen(ctx.bitmap[i], ctx.bitmap[i])]]

RECURSIVE ScreenSelfTimes(_, _)
ScreenSelfTimes(ctx, n) ==
    IF n = 0 THEN ctx ELSE ScreenSelfTimes(ScreenSelf(ctx), n - 1)

\* ------------------------------------------------------------- draw_trails
\* Returns [ok, ctx].  moveTo(...trail_xy_px[0]) spreads undefined for an
\* empty trail and throws before ctx.stroke(), so nothing is drawn then.
draw_trails(ctx, trails_xy_norm, clear_before_draw) ==
    LET ctx1 == IF clear_before_draw
                THEN [ctx EXCEPT !.bitmap = BlankBitmap(ctx.width, ctx.height)]
                ELSE ctx
        conv == _convert_to_list_of_trails([kind |-> "list", v |-> trails_xy_norm])
        path == [t \in 1..Len(conv.v) |->
                    _xy_norm_to_px(conv.v[t], ctx.width, ctx.height)]
    IN IF ~conv.ok THEN [ok |-> FALSE, ctx |-> ctx1]
       ELSE IF \E t \in 1..Len(conv.v) : Len(conv.v[t]) = 0
            THEN [ok |-> FALSE, ctx |-> ctx1]
       ELSE [ok |-> TRUE, ctx |-> Stroke(ctx1, path)]

\* ---------------------------------------------------------- _generate_mask
\* ctx.rect(0, 0, w, h) and ctx.fill() in "rgb(0,0,0)".
FillBlack(ctx) == [ctx EXCEPT !.bitmap = BlankBitmap(ctx.width, ctx.height)]

\* Faulty variant: keeps the bitmap of a canvas that already has the right size,
\* and does not repaint the background.
_generate_mask_keep_canvas(self) ==
    LET ctx0 == IF self.canvas.width = self.w /\ self.canvas.height = self.h
                THEN self.canvas
                ELSE FillBlack(ResetContext(self.w, self.h))
        no_trail_data == Len(self.trails_xy_norm) = 0
        ctx1 == SetLineWidth(ctx0, self.thickness)
        is_blurred == self.blur_size # Null /\ self.blur_size[1] > 0
        blurred == draw_trails([ctx1 EXCEPT !.blur = self.blur_size[1]],
                               self.trails_xy_norm, FALSE)
        boosted == ScreenSelfTimes(blurred.ctx, ScreenPasses)
        ctx2 == IF is_blurred THEN boosted ELSE ctx1
        final == draw_trails([ctx2 EXCEPT !.blur = 0], self.trails_xy_norm, FALSE)
    IN IF no_trail_data
       THEN [ok |-> TRUE, img |-> ctx0.bitmap, canvas |-> ctx0]
       ELSE IF is_blurred /\ ~blurred.ok
       THEN [ok |-> FALSE, img |-> self.img, canvas |-> blurred.ctx]
       ELSE IF ~final.ok
       THEN [ok |-> FALSE, img |-> self.img, canvas |-> final.ctx]
       ELSE [ok |-> TRUE, img |-> final.ctx.bitmap, canvas |-> final.ctx]

\* Faulty variant: leaves out the unblurred copy when the mask is blurred.
_generate_mask_blur_only(self) ==
    LET ctx0 == FillBlack(ResetContext(self.w, self.h))
        no_trail_data == Len(self.trails_xy_norm) = 0
        ctx1 == SetLineWidth(ctx0, self.thickness)
        is_blurred == self.blur_size # Null /\ self.blur_size[1] > 0
        blurred == draw_trails([ctx1 EXCEPT !.blur = self.blur_size[1]],
                               self.trails_xy_norm, FALSE)
        boosted == ScreenSelfTimes(blurred.ctx, ScreenPasses)
        final == draw_trails([ctx1 EXCEPT !.blur = 0], self.trails_xy_norm, FALSE)
    IN IF no_trail_data
       THEN [ok |-> TRUE, img |-> ctx0.bitmap, canvas |-> ctx0]
       ELSE IF is_blurred
       THEN IF blurred.ok
            THEN [ok |-> TRUE, img |-> boosted.bitmap, canvas |-> boosted]
            ELSE [ok |-> FALSE, img |-> self.img, canvas |-> blurred.ctx]
       ELSE IF ~final.ok
       THEN [ok |-> FALSE, img |-> self.img, canvas |-> final.ctx]
       ELSE [ok |-> TRUE, img |-> final.ctx.bitmap, canvas |-> final.ctx]

\* self is the object [w, h, thickness, blur_size, trails_xy_norm, img, canvas].
\* Returns [ok, img, canvas]: ok is FALSE when draw_trails throws, and this.img
\* is then not assigned.
_generate_mask(self) ==
    LET ctx0 == FillBlack(ResetContext(self.w, self.h))
        no_trail_data == Len(self.trails_xy_norm) = 0
        ctx1 == SetLineWidth(ctx0, self.thickness)
        is_blurred == self.blur_size # Null /\ self.blur_size[1] > 0
        blurred == draw_trails([ctx1 EXCEPT !.blur = self.blur_size[1]],
                               self.trails_xy_norm, FALSE)
        boosted == ScreenSelfTimes(blurred.ctx, ScreenPasses)
        ctx2 == IF is_blurred THEN boosted ELSE ctx1
        final == draw_trails([ctx2 EXCEPT !.blur = 0], self.trails_xy_norm, FALSE)
    IN IF no_trail_data
       THEN [ok |-> TRUE, img |-> ctx0.bitmap, canvas |-> ctx0]
       ELSE IF is_blurred /\ ~blurred.ok
       THEN [ok |-> FALSE, img |-> self.img, canvas |-> blurred.ctx]
       ELSE IF ~final.ok
       THEN [ok |-> FALSE, img |-> self.img, canvas |-> final.ctx]
       ELSE [ok |-> TRUE, img |-> final.ctx.bitmap, canvas |-> final.ctx]

\* --------------------------------------------------- update_mask_parameters
\* Faulty variant: does not bail out when no parameter is given.
update_mask_parameters_no_bail(self, trails_arg, thickness_arg, blur_arg) ==
    LET self1 == [self EXCEPT
                    !.thickness = IF thickness_arg # Null THEN thickness_arg ELSE @,
                    !.blur_size = IF blur_arg # Null THEN blur_arg ELSE @]
        conv == _convert_to_list_of_trails(trails_arg)
        self2 == IF trails_arg.kind # "null"
                 THEN [self1 EXCEPT !.trails_xy_norm = conv.v]
                 ELSE self1
        gen == _generate_mask(self2)
        self3 == [self2 EXCEPT !.img = gen.img, !.canvas = gen.canvas]
    IN IF trails_arg.kind # "null" /\ ~conv.ok
       THEN [self |-> self1, status |-> "throw", warned |-> FALSE, regenerated |-> FALSE]
       ELSE [self |-> self3, status |-> IF gen.ok THEN "return" ELSE "throw",
             warned |-> FALSE, regenerated |-> TRUE]

\* Returns [self, status, warned, regenerated].
update_mask_parameters(self, trails_arg, thickness_arg, blur_arg) ==
    LET no_inputs == trails_arg.kind = "null" /\ thickness_arg = Null /\ blur_arg = Null
        self1 == [self EXCEPT
                    !.thickness = IF thickness_arg # Null THEN thickness_arg ELSE @,
                    !.blur_size = IF blur_arg # Null THEN blur_arg ELSE @]
        conv == _convert_to_list_of_trails(trails_arg)
        self2 == IF trails_arg.kind # "null"
                 THEN [self1 EXCEPT !.trails_xy_norm = conv.v]
                 ELSE self1
        gen == _generate_mask(self2)
        self3 == [self2 EXCEPT !.img = gen.img, !.canvas = gen.canvas]
    IN IF no_inputs
       THEN [self |-> self, status |-> "return", warned |-> TRUE, regenerated |-> FALSE]
       ELSE IF trails_arg.kind # "null" /\ ~conv.ok
       THEN [self |-> self1, status |-> "throw", warned |-> FALSE, regenerated |-> FALSE]
       ELSE [self |-> self3, status |-> IF gen.ok THEN "return" ELSE "throw",
             warned |-> FALSE, regenerated |-> TRUE]

\* ------------------------------------------------------------------ compare
RECURSIVE PointTotal(_, _)
\* The loop over all_other_xy_px: out-of-bounds points are skipped.
PointTotal(self, xy_px) ==
    IF xy_px = <<>> THEN 0
    ELSE LET x == Head(xy_px)[1]
             y == Head(xy_px)[2]
         IN IF x < 0 \/ x >= self.w \/ y < 0 \/ y >= self.h
            THEN PointTotal(self, Tail(xy_px))
            ELSE self.img[y * self.w + x + 1] + PointTotal(self, Tail(xy_px))

\* Faulty variant: divides by the number of trails, not of points.
compare_per_trail(self, other_trails_xy_norm) ==
    LET conv == _convert_to_list_of_trails(other_trails_xy_norm)
        all_other_xy_norm == Flat(conv.v)
        all_other_xy_px == _xy_norm_to_px(all_other_xy_norm, self.w, self.h)
    IN IF ~conv.ok
       THEN [status |-> "throw", point_total |-> 0, num_points |-> 0]
       ELSE [status |-> "return",
             point_total |-> PointTotal(self, all_other_xy_px),
             num_points |-> Len(conv.v)]

\* Returns [status, point_total, num_points]; the score is
\* (point_total / MaskValue) / num_points.
compare(self, other_trails_xy_norm) ==
    LET conv == _convert_to_list_of_trails(other_trails_xy_norm)
        all_other_xy_norm == Flat(conv.v)
        all_other_xy_px == _xy_norm_to_px(all_other_xy_norm, self.w, self.h)
    IN IF ~conv.ok
       THEN [status |-> "throw", point_total |-> 0, num_points |-> 0]
       ELSE [status |-> "return",
             point_total |-> PointTotal(self, all_other_xy_px),
             num_points |-> Len(all_other_xy_px)]

\* ------------------------------------------------------------ state machine
VARIABLES
    phase,           \* "none": no mask yet; "live": a constructed mask; "failed": the constructor threw
    w, h, thickness, blur_size, trails_xy_norm, img, canvas,   \* the object's fields
    pc,              \* the caller: "idle", or "returned" from the call in last
    last,            \* the last call, its arguments and its outcome
    clean            \* no update_mask_parameters call on this mask has thrown

fields == <<w, h, thickness, blur_size, trails_xy_norm, img, canvas>>
vars == <<phase, w, h, thickness, blur_size, trails_xy_norm, img, canvas, pc, last, clean>>

Self ==
    [w |-> w, h |-> h, thickness |-> thickness, blur_size |-> blur_size,
     trails_xy_norm |-> trails_xy_norm, img |-> img, canvas |-> canvas]

\* document.createElement("canvas"): not drawn on before it is resized.
FreshCanvas == ResetContext(0, 0)

\* Lines 29-39 of the constructor, before the first update.
Fresh(mask_width, mask_height) ==
    [w |-> mask_width, h |-> mask_height, thickness |-> Null, blur_size |-> Null,
     trails_xy_norm |-> <<>>, img |-> Null, canvas |-> FreshCanvas]

NoCall ==
    [op |-> "none", trails |-> NullArg, thickness |-> Null, blur_size |-> Null,
     status |-> "none", warned |-> FALSE, regenerated |-> FALSE,
     point_total |-> 0, num_points |-> 0]

SetFields(self) ==
    /\ w' = self.w
    /\ h' = self.h
    /\ thickness' = self.thickness
    /\ blur_size' = self.blur_size
    /\ trails_xy_norm' = self.trails_xy_norm
    /\ img' = self.img
    /\ canvas' = self.canvas

Init ==
    /\ phase = "none"
    /\ w = 0
    /\ h = 0
    /\ thickness = Null
    /\ blur_size = Null
    /\ trails_xy_norm = <<>>
    /\ img = Null
    /\ canvas = FreshCanvas
    /\ pc = "idle"
    /\ last = NoCall
    /\ clean = TRUE

\* new TrailComparisonMask(trails, mask_width, mask_height, thickness, blur_size);
\* a trails argument left out reaches update_mask_parameters as null.
Construct(trails_arg, mask_width, mask_height, thickness_arg, blur_arg) ==
    /\ pc = "idle"
    /\ phase # "live"
    /\ \E r \in {update_mask_parameters(Fresh(mask_width, mask_height),
                                       trails_arg, Some(thickness_arg), Some(blur_arg))} :
          /\ IF r.status = "return"
             THEN phase' = "live" /\ SetFields(r.self)
             ELSE phase' = "failed" /\ SetFields(Fresh(0, 0))
          /\ last' = [NoCall EXCEPT !.op = "new", !.trails = trails_arg,
                        !.thickness = Some(thickness_arg), !.blur_size = Some(blur_arg),
                        !.status = r.status, !.warned = r.warned,
                        !.regenerated = r.regenerated]
    /\ clean' = TRUE
    /\ pc' = "returned"

\* mask.update_mask_parameters(trails, thickness, blur_size)
UpdateMaskParameters(trails_arg, thickness_arg, blur_arg) ==
    /\ pc = "idle"
    /\ phase = "live"
    /\ \E r \in {update_mask_parameters(Self, trails_arg, thickness_arg, blur_arg)} :
          /\ SetFields(r.self)
          /\ last' = [NoCall EXCEPT !.op = "update", !.trails = trails_arg,
                        !.thickness = thickness_arg, !.blur_size = blur_arg,
                        !.status = r.status, !.warned = r.warned,
                        !.regenerated = r.regenerated]
          /\ clean' = (clean /\ r.status = "return")
    /\ phase' = phase
    /\ pc' = "returned"

\* mask.compare(other_trails)
Compare(other_trails) ==
    /\ pc = "idle"
    /\ phase = "live"
    /\ \E r \in {compare(Self, other_trails)} :
          last' = [NoCall EXCEPT !.op = "compare", !.trails = other_trails,
                     !.status = r.status, !.point_total = r.point_total,
                     !.num_points = r.num_points]
    /\ pc' = "returned"
    /\ UNCHANGED <<phase, fields, clean>>

\* The caller takes the returned value or the exception and goes on.
Resume ==
    /\ pc = "returned"
    /\ pc' = "idle"
    /\ last' = NoCall
    /\ UNCHANGED <<phase, fields, clean>>

DoConstruct ==
    \E t \in TrailArgs \cup {NullArg}, mw \in Dims, mh \in Dims,
       th \in ThicknessVals, bl \in BlurVals :
        Construct(t, mw, mh, th, bl)

DoUpdate ==
    \E t \in TrailArgs \cup {NullArg}, th \in OptOf(ThicknessVals), bl \in OptOf(BlurVals) :
        UpdateMaskParameters(t, th, bl)

DoCompare == \E q \in TrailArgs : Compare(q)

Next == DoConstruct \/ DoUpdate \/ DoCompare \/ Resume

Spec == Init /\ [][Next]_vars

\* =================================================================== claims
Returned(op) == pc = "returned" /\ last.op = op

\* The number of points of a trails argument, over all its trails.
NumPointsOf(arg) == Len(Flat(arg.v))

\* The points of a trails argument, in order.
PointsOf(arg) == Flat(arg.v)

AllNull(call) ==
    call.trails.kind = "null" /\ call.thickness = Null /\ call.blur_size = Null

\* The raster drawn on a new canvas from given trails, thickness and blur_size.
RasterOf(width, height, thick, blur, trails) ==
    _generate_mask([w |-> width, h |-> height, thickness |-> thick, blur_size |-> blur,
                    trails_xy_norm |-> trails, img |-> Null, canvas |-> FreshCanvas]).img

\* The raster drawn from scratch from the stored parameters.
FromScratch == RasterOf(w, h, thickness, blur_size, trails_xy_norm)

\* n = round(num / den), stated without floor: n - 1/2 <= num / den < n + 1/2.
IsRound(n, num, den) == 2 * den * n - den <= 2 * num /\ 2 * num < 2 * den * n + den

\* The pixel a point maps to is inside the raster.
MapsInside(p) ==
    \E x \in 0..(w - 1), y \in 0..(h - 1) :
        IsRound(x, p[1] * (w - 1), CoordDen) /\ IsRound(y, p[2] * (h - 1), CoordDen)

\* The intensity under a point: the raster at round(x*(w-1)), round(y*(h-1)),
\* and 0 for a point that maps outside the raster.
IntensityUnder(p) ==
    IF MapsInside(p)
    THEN LET xy == CHOOSE xy \in (0..(w - 1)) \X (0..(h - 1)) :
                       /\ IsRound(xy[1], p[1] * (w - 1), CoordDen)
                       /\ IsRound(xy[2], p[2] * (h - 1), CoordDen)
         IN img[xy[2] * w + xy[1] + 1]
    ELSE 0

RECURSIVE SumUnder(_)
SumUnder(points) ==
    IF points = <<>> THEN 0 ELSE IntensityUnder(Head(points)) + SumUnder(Tail(points))

\* A coordinate pair with x or y below 0 or above 1.
OutsideUnitSquare(p) == p[1] < 0 \/ p[1] > CoordDen \/ p[2] < 0 \/ p[2] > CoordDen

\* ---- C1: compare() of a query with zero points in total fails with an error;
\* it never returns a score (no 0, no NaN).
C1_ZeroPointQueryFails ==
    (Returned("compare") /\ NumPointsOf(last.trails) = 0) => last.status = "throw"

C1_Witness ==
    /\ Returned("compare")
    /\ last.trails = [kind |-> "list", v |-> << <<>>, <<>> >>]
    /\ last.status = "throw"

\* ---- C2: after mask creation and update calls that all returned normally, the
\* stored raster is the one generated from scratch from the stored trails,
\* thickness and blur_size; a null argument keeps the stored value, a non-null
\* argument replaces it.
C2_RasterFromStoredParameters ==
    [][ (phase' = "live" /\ clean')
        => /\ img' = RasterOf(w', h', thickness', blur_size', trails_xy_norm')
           /\ (pc' = "returned" /\ last'.op \in {"new", "update"} /\ ~AllNull(last'))
              => /\ thickness' = IF last'.thickness # Null THEN last'.thickness ELSE thickness
                 /\ blur_size' = IF last'.blur_size # Null THEN last'.blur_size ELSE blur_size
                 /\ trails_xy_norm' = IF last'.trails.kind # "null"
                                      THEN last'.trails.v ELSE trails_xy_norm ]_vars

\* An update replaced a trail set that had drawn ink by one that draws none.
C2_Witness ==
    /\ Returned("update")
    /\ last.status = "return"
    /\ last.trails.kind # "null"
    /\ clean
    /\ img = BlankBitmap(w, h)
    /\ canvas.lineWidth = 4

\* ---- C3 as stated: a query whose points all have a coordinate outside [0,1]
\* scores exactly 0, whatever the reference trail, width and height.
C3_OutsideUnitSquareScoresZero ==
    (/\ Returned("compare")
     /\ last.status = "return"
     /\ \A i \in 1..NumPointsOf(last.trails) : OutsideUnitSquare(PointsOf(last.trails)[i]))
    => last.point_total = 0

\* ---- C3 amended: a query whose points all map, after rounding, to a pixel
\* outside the raster scores exactly 0.
C3_OutsideRasterScoresZero ==
    (/\ Returned("compare")
     /\ last.status = "return"
     /\ \A i \in 1..NumPointsOf(last.trails) : ~MapsInside(PointsOf(last.trails)[i]))
    => (last.point_total = 0 /\ last.num_points > 0)

\* Such a query, on a mask that is bright everywhere.
C3_Witness ==
    /\ Returned("compare")
    /\ last.status = "return"
    /\ \A i \in 1..NumPointsOf(last.trails) : ~MapsInside(PointsOf(last.trails)[i])
    /\ \A i \in 1..Len(img) : img[i] = MaskValue
    /\ last.point_total = 0

\* ---- C4: creating a mask from an empty trail set (no trails, or trails without
\* points), or updating a mask to one, is no error and gives an all-zero raster
\* of the requested size, on which every query that returns scores 0.
C4_EmptyTrailSetGivesBlankMask ==
    /\ (/\ pc = "returned"
        /\ last.op \in {"new", "update"}
        /\ last.trails.kind # "null"
        /\ NumPointsOf(last.trails) = 0)
       => (last.status = "return" /\ phase = "live" /\ img = BlankBitmap(w, h))
    /\ (Returned("compare") /\ last.status = "return" /\ img = BlankBitmap(w, h))
       => last.point_total = 0

\* ---- C5: for a query with at least one point, the score compare() returns is
\* between 0 and 1.
C5_ScoreBounds ==
    (Returned("compare") /\ last.status = "return" /\ NumPointsOf(last.trails) >= 1)
    => /\ last.num_points >= 1
       /\ 0 <= last.point_total
       /\ last.point_total <= MaskValue * last.num_points

C5_Witness ==
    /\ Returned("compare")
    /\ last.status = "return"
    /\ last.num_points >= 2
    /\ 0 < last.point_total
    /\ last.point_total < MaskValue * last.num_points

\* ---- C6: update_mask_parameters with all three arguments null warns and changes
\* nothing: trails, thickness, blur_size and raster stay, nothing is redrawn.
C6_AllNullUpdateIsNoOp ==
    [][ (pc = "idle" /\ pc' = "returned" /\ last'.op = "update" /\ AllNull(last'))
        => /\ last'.warned
           /\ last'.status = "return"
           /\ ~last'.regenerated
           /\ UNCHANGED <<thickness, blur_size, trails_xy_norm, img, canvas>> ]_vars

\* The no-op call on a mask whose raster is stale: it is not redrawn.
C6_Witness ==
    /\ Returned("update")
    /\ AllNull(last)
    /\ last.warned
    /\ img # FromScratch

\* ---- C7: compare([a, b]) and compare([b, a]) have the same outcome.
C7_TrailOrderIndependent ==
    (Returned("compare") /\ last.trails.kind = "list" /\ Len(last.trails.v) = 2)
    => LET swapped == compare(Self, [kind |-> "list",
                                      v |-> <<last.trails.v[2], last.trails.v[1]>>])
       IN /\ swapped.status = last.status
          /\ swapped.point_total * last.num_points
                = last.point_total * swapped.num_points

\* The reference points, as <<trail, index>> places in the stored trails.
RefPlaces ==
    { ti \in (1..Len(trails_xy_norm)) \X (1..MaxPoints) :
        ti[2] <= Len(trails_xy_norm[ti[1]]) }

RefPoint(ti) == trails_xy_norm[ti[1]][ti[2]]

\* The reference point ends a segment of the polyline that joins two
\* different pixels.
EndsInkedSegment(ti) ==
    LET px == _xy_norm_to_px(trails_xy_norm[ti[1]], w, h)
    IN \/ ti[2] > 1 /\ px[ti[2] - 1] # px[ti[2]]
       \/ ti[2] < Len(px) /\ px[ti[2] + 1] # px[ti[2]]

\* ---- C8 as stated: every pixel a reference point maps to reads maximum
\* intensity, whatever blur_size is, and compare() of the reference trails
\* themselves scores at least 0.95.
C8_ReferencePixelsAtMaximum ==
    /\ (phase = "live" /\ clean)
       => \A ti \in RefPlaces :
            MapsInside(RefPoint(ti)) => IntensityUnder(RefPoint(ti)) = MaskValue
    /\ (Returned("compare") /\ last.status = "return" /\ clean
            /\ last.trails.v = trails_xy_norm)
       => 100 * last.point_total >= 95 * MaskValue * last.num_points

\* ---- C8 amended: with a thickness of at least 3 pixels, every pixel inside
\* the raster that the end of an inked segment of a reference trail maps to
\* reads maximum intensity, whatever blur_size is; and compare() of the
\* reference trails themselves scores 1 when every reference point ends an
\* inked segment and maps inside the raster.
C8_InkedReferencePixelsAtMaximum ==
    (phase = "live" /\ clean /\ thickness # Null /\ thickness[1] >= 3)
    => /\ \A ti \in RefPlaces :
            (EndsInkedSegment(ti) /\ MapsInside(RefPoint(ti)))
            => IntensityUnder(RefPoint(ti)) = MaskValue
       /\ (/\ Returned("compare")
           /\ last.status = "return"
           /\ last.trails.v = trails_xy_norm
           /\ \A ti \in RefPlaces : EndsInkedSegment(ti) /\ MapsInside(RefPoint(ti)))
          => last.point_total = MaskValue * last.num_points

\* The reference trail compared with itself on a blurred mask.
C8_Witness ==
    /\ Returned("compare")
    /\ last.status = "return"
    /\ clean
    /\ thickness # Null /\ thickness[1] >= 3
    /\ blur_size # Null /\ blur_size[1] > 0
    /\ last.trails.v = trails_xy_norm
    /\ last.num_points >= 2
    /\ \A ti \in RefPlaces : EndsInkedSegment(ti) /\ MapsInside(RefPoint(ti))
    /\ last.point_total = MaskValue * last.num_points

\* ---- C9: compare() returns (the sum of the raster intensity under the query
\* points that map inside the raster) / 255 / (the number of query points of all
\* trails), a point mapping to (round(x*(w-1)), round(y*(h-1))).
C9_ScoreIsMeanIntensity ==
    (Returned("compare") /\ last.status = "return")
    => /\ last.num_points = NumPointsOf(last.trails)
       /\ last.point_total = SumUnder(PointsOf(last.trails))

\* A query with a point inside the raster on ink and a point outside it.
C9_Witness ==
    /\ Returned("compare")
    /\ last.status = "return"
    /\ last.point_total > 0
    /\ \E i \in 1..NumPointsOf(last.trails) : ~MapsInside(PointsOf(last.trails)[i])
    /\ \E i \in 1..NumPointsOf(last.trails) : MapsInside(PointsOf(last.trails)[i])

\* ---- C10: an update_mask_parameters call that fails with an error leaves the
\* stored thickness, blur_size, trails and raster as they were, the raster still
\* the one generated from the stored parameters.
C10_FailedUpdateChangesNothing ==
    [][ (pc = "idle" /\ pc' = "returned" /\ last'.op = "update" /\ last'.status = "throw")
        => /\ UNCHANGED <<thickness, blur_size, trails_xy_norm, img>>
           /\ (img = FromScratch
                 => img' = RasterOf(w', h', thickness', blur_size', trails_xy_norm')) ]_vars

====
